---------------------------- MODULE Spec2Model ----------------------------
(***************************************************************************)
(* Business Hub (src/script.js): the localStorage document store, the      *)
(* thought / work / project editors, the contact form and the client-side  *)
(* admin gate, as a state machine.                                         *)
(*                                                                         *)
(* JavaScript values are tagged records:                                   *)
(*   [t |-> "null"], [t |-> "undefined"], [t |-> "str", s |-> chars],      *)
(*   [t |-> "num", n |-> digits], [t |-> "arr", a |-> <<values>>],         *)
(*   [t |-> "obj", o |-> <<[k |-> key, v |-> value], ...>>]                *)
(* A string is a sequence of one-character strings, an object keeps its    *)
(* properties in insertion order.  A JSON text is a sequence of tokens:    *)
(* scalar values stand for their literals, [t |-> "p", c |-> "{"] for      *)
(* punctuation and [t |-> "bad"] for a lexeme that is no JSON token.       *)
(***************************************************************************)
EXTENDS Integers, Sequences, FiniteSets, TLC

(***************************************************************************)
(* JavaScript values                                                       *)
(***************************************************************************)
JNull == [t |-> "null"]
JUndef == [t |-> "undefined"]
JStr(chars) == [t |-> "str", s |-> chars]
JNum(digits) == [t |-> "num", n |-> digits]
JArr(elems) == [t |-> "arr", a |-> elems]
JObj(props) == [t |-> "obj", o |-> props]
Prop(key, val) == [k |-> key, v |-> val]

\* if(x), !x, x || y : JavaScript truthiness
Truthy(x) ==
  CASE x.t = "null" -> FALSE
    [] x.t = "undefined" -> FALSE
    [] x.t = "str" -> x.s # <<>>
    [] x.t = "num" -> x.n # "0"
    [] OTHER -> TRUE

\* x || y
OrElse(x, y) == IF Truthy(x) THEN x ELSE y

\* k in obj
HasKey(obj, key) == \E i \in 1..Len(obj.o) : obj.o[i].k = key

\* obj.key (undefined when the property is absent)
Get(obj, key) ==
  IF HasKey(obj, key)
    THEN LET i == CHOOSE j \in 1..Len(obj.o) : obj.o[j].k = key IN obj.o[i].v
    ELSE JUndef

\* obj.key = val : overwrite in place, or append a new property
Put(obj, key, val) ==
  IF HasKey(obj, key)
    THEN JObj([i \in 1..Len(obj.o) |->
                 IF obj.o[i].k = key THEN Prop(key, val) ELSE obj.o[i]])
    ELSE JObj(Append(obj.o, Prop(key, val)))

\* x.key where x may be null or undefined: a TypeError then
IsObject(x) == x.t = "obj"
IsArray(x) == x.t = "arr"

(***************************************************************************)
(* Strings                                                                 *)
(***************************************************************************)
IsSpace(c) == c = " "

RECURSIVE TrimStart(_)
TrimStart(chars) ==
  IF chars # <<>> /\ IsSpace(Head(chars)) THEN TrimStart(Tail(chars)) ELSE chars

RECURSIVE TrimEnd(_)
TrimEnd(chars) ==
  IF chars # <<>> /\ IsSpace(chars[Len(chars)])
    THEN TrimEnd(SubSeq(chars, 1, Len(chars) - 1))
    ELSE chars

\* String.prototype.trim
Trim(chars) == TrimEnd(TrimStart(chars))

\* String.prototype.split(',') : the pieces between commas
RECURSIVE SplitComma(_, _)
SplitComma(chars, piece) ==
  IF chars = <<>> THEN <<piece>>
  ELSE IF Head(chars) = ","
    THEN <<piece>> \o SplitComma(Tail(chars), <<>>)
    ELSE SplitComma(Tail(chars), Append(piece, Head(chars)))

(***************************************************************************)
(* JSON.stringify / JSON.parse                                             *)
(***************************************************************************)
Punct(c) == [t |-> "p", c |-> c]
BadToken == [t |-> "bad"]
IsPunct(tok, c) == tok.t = "p" /\ tok.c = c

RECURSIVE JSON_stringify(_)
RECURSIVE StringifyElems(_, _)
RECURSIVE StringifyProps(_, _, _)
RECURSIVE StringifyProps_dropNull(_, _, _)

\* array elements, comma separated; undefined is written as null
StringifyElems(elems, i) ==
  IF i > Len(elems) THEN <<>>
  ELSE (IF i > 1 THEN <<Punct(",")>> ELSE <<>>)
       \o (IF elems[i].t = "undefined" THEN <<JNull>> ELSE JSON_stringify(elems[i]))
       \o StringifyElems(elems, i + 1)

\* StringifyProps leaving out null properties as well as undefined ones
StringifyProps_dropNull(props, i, first) ==
  IF i > Len(props) THEN <<>>
  ELSE IF props[i].v.t \in {"undefined", "null"}
    THEN StringifyProps_dropNull(props, i + 1, first)
  ELSE (IF first THEN <<>> ELSE <<Punct(",")>>)
       \o <<JStr(props[i].k), Punct(":")>> \o JSON_stringify(props[i].v)
       \o StringifyProps_dropNull(props, i + 1, FALSE)

\* object properties in insertion order; a property whose value is
\* undefined is left out
StringifyProps(props, i, first) ==
  IF i > Len(props) THEN <<>>
  ELSE IF props[i].v.t = "undefined" THEN StringifyProps(props, i + 1, first)
  ELSE (IF first THEN <<>> ELSE <<Punct(",")>>)
       \o <<JStr(props[i].k), Punct(":")>> \o JSON_stringify(props[i].v)
       \o StringifyProps(props, i + 1, FALSE)

JSON_stringify(val) ==
  CASE val.t = "arr" -> <<Punct("[")>> \o StringifyElems(val.a, 1) \o <<Punct("]")>>
    [] val.t = "obj" -> <<Punct("{")>> \o StringifyProps(val.o, 1, TRUE) \o <<Punct("}")>>
    [] OTHER -> <<val>>

ParseFail == [ok |-> FALSE]
ParseOk(val, next) == [ok |-> TRUE, val |-> val, next |-> next]

RECURSIVE ParseValue(_, _)
RECURSIVE ParseElems(_, _, _)
RECURSIVE ParseMembers(_, _, _)

\* elements after '[' or ',' : value, then ',' or ']'
ParseElems(toks, i, acc) ==
  LET r == ParseValue(toks, i) IN
  IF ~r.ok \/ r.next > Len(toks) THEN ParseFail
  ELSE IF IsPunct(toks[r.next], ",") THEN ParseElems(toks, r.next + 1, Append(acc, r.val))
  ELSE IF IsPunct(toks[r.next], "]") THEN ParseOk(JArr(Append(acc, r.val)), r.next + 1)
  ELSE ParseFail

\* members after '{' or ',' : string, ':', value, then ',' or '}';
\* a repeated key keeps its first position and takes the last value
ParseMembers(toks, i, acc) ==
  IF i + 1 > Len(toks) \/ toks[i].t # "str" \/ ~IsPunct(toks[i + 1], ":") THEN ParseFail
  ELSE LET r == ParseValue(toks, i + 2) IN
    IF ~r.ok \/ r.next > Len(toks) THEN ParseFail
    ELSE LET obj == Put(acc, toks[i].s, r.val) IN
      IF IsPunct(toks[r.next], ",") THEN ParseMembers(toks, r.next + 1, obj)
      ELSE IF IsPunct(toks[r.next], "}") THEN ParseOk(obj, r.next + 1)
      ELSE ParseFail

ParseValue(toks, i) ==
  IF i > Len(toks) THEN ParseFail
  ELSE LET tok == toks[i] IN
    CASE tok.t \in {"str", "num", "null"} -> ParseOk(tok, i + 1)
      [] IsPunct(tok, "[") ->
           IF i + 1 <= Len(toks) /\ IsPunct(toks[i + 1], "]")
             THEN ParseOk(JArr(<<>>), i + 2)
             ELSE ParseElems(toks, i + 1, <<>>)
      [] IsPunct(tok, "{") ->
           IF i + 1 <= Len(toks) /\ IsPunct(toks[i + 1], "}")
             THEN ParseOk(JObj(<<>>), i + 2)
             ELSE ParseMembers(toks, i + 1, JObj(<<>>))
      [] OTHER -> ParseFail

\* completion of a call: a returned value or a thrown exception
Return(val) == [throws |-> FALSE, val |-> val]
Throw(err) == [throws |-> TRUE, err |-> err]

\* JSON.parse(text): the whole text must be one value, else SyntaxError
JSON_parse(toks) ==
  LET r == ParseValue(toks, 1) IN
  IF r.ok /\ r.next = Len(toks) + 1 THEN Return(r.val) ELSE Throw("SyntaxError")


(***************************************************************************)
(* Bounds of the model                                                     *)
(***************************************************************************)
\* number of distinct values Math.random().toString(36).slice(2,9) takes
NumIds == 2
\* steps (handler invocations and resumptions) in one behaviour of Spec
MaxOps == 4
\* steps in one behaviour of SpecCrud
MaxCrudOps == 4
\* steps in one behaviour of SpecAdmin
MaxAdminOps == 5
\* handlers suspended at an await at the same time
MaxPending == 2
\* handler steps in a run that starts with an admin already set up
MaxSignedUpOps == 3
MaxRelayOps == 4
MaxImageOps == 3

(***************************************************************************)
(* State                                                                   *)
(***************************************************************************)
VARIABLES
  storage,           \* localStorage[DB_KEY]: JNull (no item) or a text
  editingThoughtId,  \* let editingThoughtId
  editingWorkId,     \* let editingWorkId
  editingProjectId,  \* let editingProjectId
  panel,             \* adminPanel is shown (its class list lacks 'hidden')
  pending,           \* handlers suspended at an await, with their locals
  clock,             \* the system clock, read by nowISO(): one tick a step
  issued,            \* per collection, the ids uid() has handed out so far
  out,               \* what the last handler step showed: toast, alert, throw
  budget,            \* steps left in this behaviour
  probe              \* the last direct loadDB() / saveDB(d) call and its result

vars == <<storage, editingThoughtId, editingWorkId, editingProjectId, panel,
          pending, clock, issued, out, budget, probe>>

\* a string held by localStorage
Text(toks) == [t |-> "text", x |-> toks]

(***************************************************************************)
(* Simple client DB (localStorage)                                         *)
(***************************************************************************)
DEFAULT_DB ==
  JObj(<<Prop("thoughts", JArr(<<>>)), Prop("work", JArr(<<>>)),
         Prop("projects", JArr(<<>>)), Prop("messages", JArr(<<>>)),
         Prop("admin", JNull)>>)

\* localStorage.getItem(DB_KEY): null when there is no item
getItem(store) == store

\* raw ? ... : ... on the string (or null) getItem returned
RawTruthy(raw) == raw.t = "text" /\ raw.x # <<>>

\* JSON.parse(JSON.stringify(DEFAULT_DB))
FreshDefault == JSON_parse(JSON_stringify(DEFAULT_DB)).val

\* Catch with the catch block missing: the exception goes on to the caller
Catch_rethrow(completion, fallback) == completion

\* try { ... } catch (e) { return fallback }
Catch(completion, fallback) ==
  IF completion.throws THEN Return(fallback) ELSE completion

\* function loadDB(): try { raw ? JSON.parse(raw) : default } catch { default }
loadDB(store) ==
  IF RawTruthy(getItem(store))
    THEN Catch(JSON_parse(getItem(store).x), FreshDefault)
    ELSE Return(FreshDefault)

\* x.length throws a TypeError when x is null or undefined
LengthThrows(x) == x.t \in {"null", "undefined"}

\* db.thoughts.length, db.projects.length, db.messages.length
ReadStats(db) ==
  IF db.t # "obj" THEN Throw("TypeError")
  ELSE IF LengthThrows(Get(db, "thoughts")) \/ LengthThrows(Get(db, "projects"))
          \/ LengthThrows(Get(db, "messages"))
    THEN Throw("TypeError")
    ELSE Return(JUndef)

\* function updateStats(): the lengths of a freshly loaded document (the
\* three counters it writes are page text, not part of the store)
updateStats(store) == ReadStats(loadDB(store).val)

\* localStorage.setItem(DB_KEY, text); updateStats(): the item is written
\* even when updateStats throws
SetItemThenStats(store) ==
  [storage |-> store, throws |-> updateStats(store).throws]

\* function saveDB(db)
saveDB(db) == SetItemThenStats(Text(JSON_stringify(db)))

\* removeItem under another key: the item stays
removeItem_otherKey == storage

\* localStorage.removeItem(DB_KEY)
removeItem == JNull

(***************************************************************************)
(* Utility helpers                                                         *)
(***************************************************************************)
IdChars == <<"a", "b", "c", "d", "e", "f">>
\* the values uid() can return
Ids == { JStr(<<IdChars[i]>>) : i \in 1..NumIds }

Digits == <<"0", "1", "2", "3", "4", "5", "6", "7", "8", "9">>
\* function nowISO(): the clock as a string
nowISO(now) == JStr(<<"T", Digits[now + 1]>>)

\* what a handler step showed
Out(op, arg, kind, msg) == [op |-> op, arg |-> arg, kind |-> kind, msg |-> msg]
Toast(op, arg, msg) == Out(op, arg, "toast", msg)
Alert(op, arg, msg) == Out(op, arg, "alert", msg)
Thrown(op, arg, err) == Out(op, arg, "throw", err)
Quiet(op, arg) == Out(op, arg, "none", "")

\* the end of a handler that called saveDB: the item is written, and the
\* handler's toast shows unless saveDB threw
Commit(sv, shown) ==
  /\ storage' = sv.storage
  /\ out' = IF sv.throws THEN Thrown(shown.op, shown.arg, "TypeError") ELSE shown

\* the end of a handler that wrote nothing
NoCommit(shown) ==
  /\ out' = shown
  /\ UNCHANGED storage

\* db.<name> is an array (find, filter and push exist on it)
HasArray(db, name) == IsObject(db) /\ IsArray(Get(db, name))

\* arr.find(x => x.id === id): the index of the first match, 0 for none
FindIndex(arr, id) ==
  IF \E i \in 1..Len(arr.a) : Get(arr.a[i], "id") = id
    THEN CHOOSE i \in 1..Len(arr.a) :
           /\ Get(arr.a[i], "id") = id
           /\ \A j \in 1..(i - 1) : Get(arr.a[j], "id") # id
    ELSE 0

\* arr.filter(x => x.id !== id)
FilterOutId(arr, id) == JArr(SelectSeq(arr.a, LAMBDA x : Get(x, "id") # id))

\* arr.push(x)
Push(arr, x) == JArr(Append(arr.a, x))

\* arr[i] = x (a record mutated in place)
SetAt(arr, i, x) == JArr([arr.a EXCEPT ![i] = x])

(***************************************************************************)
(* Image file -> base64 helper                                             *)
(***************************************************************************)
File(bytes) == [t |-> "file", bytes |-> bytes]

\* reader.result of readAsDataURL(file)
DataURL(file) == JStr(<<"d", "a", "t", "a", ":">> \o file.bytes)


(***************************************************************************)
(* CRUD: Thoughts                                                          *)
(***************************************************************************)
Uncategorized == <<"U", "n", "c", "a", "t", "e", "g", "o", "r", "i", "z", "e", "d">>

\* what the thought editor's fields can hold when Save is clicked
ThoughtForms ==
  { [title |-> <<" ", "A">>, category |-> <<"T", "e", "c", "h">>,
     content |-> <<"h", "i">>, file |-> JUndef],
    [title |-> <<"B">>, category |-> <<" ">>,
     content |-> <<>>, file |-> File(<<"x">>)],
    [title |-> <<" ">>, category |-> <<>>,
     content |-> <<"h", "i">>, file |-> JUndef] }

\* NewThought filing every thought under 'Uncategorized'
NewThought_noCategory(id, title, category, content, img, now) ==
  JObj(<<Prop("id", id), Prop("title", JStr(title)),
         Prop("category", JStr(Uncategorized)),
         Prop("content", JStr(content)), Prop("image", OrElse(img, JNull)),
         Prop("created", nowISO(now))>>)

\* { id: uid(), title, category, content, image: img||null, created: nowISO() }
NewThought(id, title, category, content, img, now) ==
  JObj(<<Prop("id", id), Prop("title", JStr(title)), Prop("category", category),
         Prop("content", JStr(content)), Prop("image", OrElse(img, JNull)),
         Prop("created", nowISO(now))>>)

\* EditThought stamping created as well as updated
EditThought_stampsCreated(rec, title, category, content, img, now) ==
  LET r1 == Put(Put(Put(rec, "title", JStr(title)), "category", category),
                "content", JStr(content))
      r2 == IF Truthy(img) THEN Put(r1, "image", img) ELSE r1
  IN Put(Put(r2, "created", nowISO(now)), "updated", nowISO(now))

\* t.title = title; t.category = category; t.content = content;
\* if(img) t.image = img; t.updated = nowISO();
EditThought(rec, title, category, content, img, now) ==
  LET r1 == Put(Put(Put(rec, "title", JStr(title)), "category", category),
                "content", JStr(content))
      r2 == IF Truthy(img) THEN Put(r1, "image", img) ELSE r1
  IN Put(r2, "updated", nowISO(now))

\* one more step: time has passed since the step before
Step ==
  /\ budget > 0
  /\ budget' = budget - 1
  /\ clock' = clock + 1

\* the steps a handler leaves alone
NoUiChange == UNCHANGED <<editingThoughtId, editingWorkId, editingProjectId, panel>>

\* openThoughtEditorFor(id) with an id, from "const db = loadDB()" on
openThoughtFill(db, id) ==
  IF ~HasArray(db, "thoughts") THEN Thrown("openThoughtEditorFor", id, "TypeError")
  ELSE IF FindIndex(Get(db, "thoughts"), id) = 0 THEN Toast("openThoughtEditorFor", id, "Not found")
  ELSE Quiet("openThoughtEditorFor", id)

\* async function openThoughtEditorFor(id = null)
openThoughtEditorFor(id) ==
  /\ Step
  /\ editingThoughtId' = id
  /\ out' = IF Truthy(id) THEN openThoughtFill(loadDB(storage).val, id)
            ELSE Quiet("openThoughtEditorFor", id)
  /\ UNCHANGED <<storage, editingWorkId, editingProjectId, panel, pending, issued, probe>>

\* saveThought, editing: find, mutate the record, saveDB
saveThoughtEdit(db, i, title, category, content, img) ==
  IF i = 0
    THEN NoCommit(Toast("saveThought", editingThoughtId, "Not found"))
    ELSE Commit(saveDB(Put(db, "thoughts",
                           SetAt(Get(db, "thoughts"), i,
                                 EditThought(Get(db, "thoughts").a[i], title, category, content, img, clock)))),
                Toast("saveThought", editingThoughtId, "Thought updated"))

\* saveThought, creating: push a new record, saveDB
saveThoughtCreate(db, id, title, category, content, img) ==
  Commit(saveDB(Put(db, "thoughts",
                    Push(Get(db, "thoughts"), NewThought(id, title, category, content, img, clock)))),
         Toast("saveThought", editingThoughtId, "Thought saved"))

\* saveThought from "const db = loadDB()" on
saveThoughtWith(db, title, category, content, img) ==
  IF ~HasArray(db, "thoughts")
    THEN /\ NoCommit(Thrown("saveThought", editingThoughtId, "TypeError"))
         /\ UNCHANGED issued
  ELSE IF Truthy(editingThoughtId)
    THEN /\ saveThoughtEdit(db, FindIndex(Get(db, "thoughts"), editingThoughtId), title, category, content, img)
         /\ UNCHANGED issued
    ELSE \E id \in Ids :
           /\ saveThoughtCreate(db, id, title, category, content, img)
           /\ issued' = [issued EXCEPT !.thoughts = @ \cup {id}]

\* saveThoughtRest working on a document read before the await
saveThoughtRest_staleStore(title, category, content, img) ==
  saveThoughtWith(FreshDefault, title, category, content, img)

\* saveThought after "const img = await fileToBase64(file)"
saveThoughtRest(title, category, content, img) ==
  saveThoughtWith(loadDB(storage).val, title, category, content, img)

\* the locals of a saveThought suspended at its await; mode records what
\* editingThoughtId was when the handler was invoked (the handler itself
\* keeps no copy of it)
ThoughtCont(title, category, content, file) ==
  [fn |-> "saveThought", title |-> title, category |-> category,
   content |-> content, file |-> file, mode |-> editingThoughtId]

\* async function saveThought(): up to the await; without a file the promise
\* is already resolved and the rest runs before any other event
saveThought(form) ==
  /\ Step
  /\ LET title == Trim(form.title)
         category == OrElse(JStr(Trim(form.category)), JStr(Uncategorized))
         content == Trim(form.content)
     IN
     IF title = <<>>
       THEN /\ out' = Alert("saveThought", editingThoughtId, "Title required")
            /\ UNCHANGED <<storage, issued, pending>>
     ELSE IF ~Truthy(form.file)
       THEN /\ saveThoughtRest(title, category, content, JNull)
            /\ UNCHANGED pending
       ELSE /\ Cardinality(pending) < MaxPending
            /\ pending' = pending \cup {ThoughtCont(title, category, content, form.file)}
            /\ out' = Quiet("saveThought", editingThoughtId)
            /\ UNCHANGED <<storage, issued>>
  /\ NoUiChange
  /\ UNCHANGED probe

\* reader.onload: fileToBase64 resolves and saveThought runs on
saveThoughtLoaded(k) ==
  /\ k.fn = "saveThought"
  /\ Step
  /\ pending' = pending \ {k}
  /\ saveThoughtRest(k.title, k.category, k.content, DataURL(k.file))
  /\ NoUiChange
  /\ UNCHANGED probe

\* deleteThoughtWith refusing to delete while the admin panel is hidden
deleteThoughtWith_adminOnly(db, id) ==
  IF ~panel
    THEN NoCommit(Alert("deleteThought", id, "Admin only"))
  ELSE IF ~HasArray(db, "thoughts")
    THEN NoCommit(Thrown("deleteThought", id, "TypeError"))
    ELSE Commit(saveDB(Put(db, "thoughts", FilterOutId(Get(db, "thoughts"), id))),
                Toast("deleteThought", id, "Thought deleted"))

\* deleteThought from "const db = loadDB()" on
deleteThoughtWith(db, id) ==
  IF ~HasArray(db, "thoughts")
    THEN NoCommit(Thrown("deleteThought", id, "TypeError"))
    ELSE Commit(saveDB(Put(db, "thoughts", FilterOutId(Get(db, "thoughts"), id))),
                Toast("deleteThought", id, "Thought deleted"))

\* function deleteThought(id)
deleteThought(id) ==
  /\ Step
  /\ deleteThoughtWith(loadDB(storage).val, id)
  /\ NoUiChange
  /\ UNCHANGED <<pending, issued, probe>>

(***************************************************************************)
(* CRUD: Work                                                              *)
(***************************************************************************)
\* what the work editor's fields can hold when Save is clicked
WorkForms ==
  { [title |-> <<"W">>, tags |-> <<"x", ",", " ", "y", ",">>,
     content |-> <<"h", "i">>, file |-> JUndef],
    [title |-> <<"V", " ">>, tags |-> <<>>,
     content |-> <<>>, file |-> File(<<"y">>)],
    [title |-> <<>>, tags |-> <<"x">>,
     content |-> <<"h", "i">>, file |-> JUndef] }

\* tags.split(',').map(s => s.trim()).filter(Boolean)
ParseTags(chars) ==
  LET pieces == SplitComma(chars, <<>>)
      trimmed == [i \in 1..Len(pieces) |-> JStr(Trim(pieces[i]))]
  IN JArr(SelectSeq(trimmed, Truthy))

\* { id: uid(), title, tags, content, image: img||null, created: nowISO() }
NewWork(id, title, tags, content, img, now) ==
  JObj(<<Prop("id", id), Prop("title", JStr(title)), Prop("tags", tags),
         Prop("content", JStr(content)), Prop("image", OrElse(img, JNull)),
         Prop("created", nowISO(now))>>)

\* EditWork without "w.updated = nowISO()"
EditWork_noUpdated(rec, title, tags, content, img, now) ==
  LET r1 == Put(Put(Put(rec, "title", JStr(title)), "tags", tags),
                "content", JStr(content))
  IN IF Truthy(img) THEN Put(r1, "image", img) ELSE r1

\* w.title = title; w.tags = tags; w.content = content;
\* if(img) w.image = img; w.updated = nowISO();
EditWork(rec, title, tags, content, img, now) ==
  LET r1 == Put(Put(Put(rec, "title", JStr(title)), "tags", tags),
                "content", JStr(content))
      r2 == IF Truthy(img) THEN Put(r1, "image", img) ELSE r1
  IN Put(r2, "updated", nowISO(now))

\* openWorkEditorFor(id) with an id, from "const db = loadDB()" on
openWorkFill(db, id) ==
  IF ~HasArray(db, "work") THEN Thrown("openWorkEditorFor", id, "TypeError")
  ELSE IF FindIndex(Get(db, "work"), id) = 0 THEN Thrown("openWorkEditorFor", id, "TypeError")
  ELSE Quiet("openWorkEditorFor", id)

\* async function openWorkEditorFor(id = null): w.title is read with no
\* check that find returned a record
openWorkEditorFor(id) ==
  /\ Step
  /\ editingWorkId' = id
  /\ out' = IF Truthy(id) THEN openWorkFill(loadDB(storage).val, id)
            ELSE Quiet("openWorkEditorFor", id)
  /\ UNCHANGED <<storage, editingThoughtId, editingProjectId, panel, pending, issued, probe>>

\* saveWork, editing: find, mutate the record, saveDB
saveWorkEdit(db, i, title, tags, content, img) ==
  IF i = 0
    THEN NoCommit(Thrown("saveWork", editingWorkId, "TypeError"))
    ELSE Commit(saveDB(Put(db, "work",
                           SetAt(Get(db, "work"), i,
                                 EditWork(Get(db, "work").a[i], title, tags, content, img, clock)))),
                Toast("saveWork", editingWorkId, "Work updated"))

\* saveWork, creating: push a new record, saveDB
saveWorkCreate(db, id, title, tags, content, img) ==
  Commit(saveDB(Put(db, "work",
                    Push(Get(db, "work"), NewWork(id, title, tags, content, img, clock)))),
         Toast("saveWork", editingWorkId, "Work saved"))

\* saveWork from "const db = loadDB()" on
saveWorkWith(db, title, tags, content, img) ==
  IF ~HasArray(db, "work")
    THEN /\ NoCommit(Thrown("saveWork", editingWorkId, "TypeError"))
         /\ UNCHANGED issued
  ELSE IF Truthy(editingWorkId)
    THEN /\ saveWorkEdit(db, FindIndex(Get(db, "work"), editingWorkId), title, tags, content, img)
         /\ UNCHANGED issued
    ELSE \E id \in Ids :
           /\ saveWorkCreate(db, id, title, tags, content, img)
           /\ issued' = [issued EXCEPT !.work = @ \cup {id}]

\* saveWork after "const img = await fileToBase64(file)"
saveWorkRest(title, tags, content, img) ==
  saveWorkWith(loadDB(storage).val, title, tags, content, img)

\* the locals of a saveWork suspended at its await; mode records what
\* editingWorkId was when the handler was invoked
WorkCont(title, tags, content, file) ==
  [fn |-> "saveWork", title |-> title, tags |-> tags, content |-> content,
   file |-> file, mode |-> editingWorkId]

\* async function saveWork(): up to the await
saveWork(form) ==
  /\ Step
  /\ LET title == Trim(form.title)
         tags == ParseTags(form.tags)
         content == Trim(form.content)
     IN
     IF title = <<>>
       THEN /\ out' = Alert("saveWork", editingWorkId, "Title required")
            /\ UNCHANGED <<storage, issued, pending>>
     ELSE IF ~Truthy(form.file)
       THEN /\ saveWorkRest(title, tags, content, JNull)
            /\ UNCHANGED pending
       ELSE /\ Cardinality(pending) < MaxPending
            /\ pending' = pending \cup {WorkCont(title, tags, content, form.file)}
            /\ out' = Quiet("saveWork", editingWorkId)
            /\ UNCHANGED <<storage, issued>>
  /\ NoUiChange
  /\ UNCHANGED probe

\* reader.onload: fileToBase64 resolves and saveWork runs on
saveWorkLoaded(k) ==
  /\ k.fn = "saveWork"
  /\ Step
  /\ pending' = pending \ {k}
  /\ saveWorkRest(k.title, k.tags, k.content, DataURL(k.file))
  /\ NoUiChange
  /\ UNCHANGED probe

\* deleteWork from "const db = loadDB()" on
deleteWorkWith(db, id) ==
  IF ~HasArray(db, "work")
    THEN NoCommit(Thrown("deleteWork", id, "TypeError"))
    ELSE Commit(saveDB(Put(db, "work", FilterOutId(Get(db, "work"), id))),
                Toast("deleteWork", id, "Work deleted"))

\* function deleteWork(id)
deleteWork(id) ==
  /\ Step
  /\ deleteWorkWith(loadDB(storage).val, id)
  /\ NoUiChange
  /\ UNCHANGED <<pending, issued, probe>>

(***************************************************************************)
(* CRUD: Projects                                                          *)
(***************************************************************************)
\* what the project editor's fields can hold when Save is clicked
ProjectForms ==
  { [title |-> <<"P">>, link |-> <<"u", "r", "l", " ">>,
     desc |-> <<"h", "i">>, file |-> JUndef],
    [title |-> <<" ", "Q">>, link |-> <<>>,
     desc |-> <<>>, file |-> File(<<"z">>)],
    [title |-> <<" ", " ">>, link |-> <<"u", "r", "l">>,
     desc |-> <<>>, file |-> JUndef] }

\* { id: uid(), title, link, desc, image: img||null, created: nowISO() }
NewProject(id, title, link, desc, img, now) ==
  JObj(<<Prop("id", id), Prop("title", JStr(title)), Prop("link", JStr(link)),
         Prop("desc", JStr(desc)), Prop("image", OrElse(img, JNull)),
         Prop("created", nowISO(now))>>)

\* EditProject assigning p.image also when no new image was chosen
EditProject_clearsImage(rec, title, link, desc, img, now) ==
  Put(Put(Put(Put(Put(rec, "title", JStr(title)), "link", JStr(link)),
              "desc", JStr(desc)),
          "image", OrElse(img, JNull)),
      "updated", nowISO(now))

\* p.title = title; p.link = link; p.desc = desc;
\* if(img) p.image = img; p.updated = nowISO();
EditProject(rec, title, link, desc, img, now) ==
  LET r1 == Put(Put(Put(rec, "title", JStr(title)), "link", JStr(link)),
                "desc", JStr(desc))
      r2 == IF Truthy(img) THEN Put(r1, "image", img) ELSE r1
  IN Put(r2, "updated", nowISO(now))

\* openProjectEditorFor(id) with an id, from "const db = loadDB()" on
openProjectFill(db, id) ==
  IF ~HasArray(db, "projects") THEN Thrown("openProjectEditorFor", id, "TypeError")
  ELSE IF FindIndex(Get(db, "projects"), id) = 0 THEN Thrown("openProjectEditorFor", id, "TypeError")
  ELSE Quiet("openProjectEditorFor", id)

\* async function openProjectEditorFor(id = null): p.title is read with no
\* check that find returned a record
openProjectEditorFor(id) ==
  /\ Step
  /\ editingProjectId' = id
  /\ out' = IF Truthy(id) THEN openProjectFill(loadDB(storage).val, id)
            ELSE Quiet("openProjectEditorFor", id)
  /\ UNCHANGED <<storage, editingThoughtId, editingWorkId, panel, pending, issued, probe>>

\* saveProject, editing: find, mutate the record, saveDB
saveProjectEdit(db, i, title, link, desc, img) ==
  IF i = 0
    THEN NoCommit(Thrown("saveProject", editingProjectId, "TypeError"))
    ELSE Commit(saveDB(Put(db, "projects",
                           SetAt(Get(db, "projects"), i,
                                 EditProject(Get(db, "projects").a[i], title, link, desc, img, clock)))),
                Toast("saveProject", editingProjectId, "Project updated"))

\* saveProject, creating: push a new record, saveDB
saveProjectCreate(db, id, title, link, desc, img) ==
  Commit(saveDB(Put(db, "projects",
                    Push(Get(db, "projects"), NewProject(id, title, link, desc, img, clock)))),
         Toast("saveProject", editingProjectId, "Project saved"))

\* saveProject from "const db = loadDB()" on
saveProjectWith(db, title, link, desc, img) ==
  IF ~HasArray(db, "projects")
    THEN /\ NoCommit(Thrown("saveProject", editingProjectId, "TypeError"))
         /\ UNCHANGED issued
  ELSE IF Truthy(editingProjectId)
    THEN /\ saveProjectEdit(db, FindIndex(Get(db, "projects"), editingProjectId), title, link, desc, img)
         /\ UNCHANGED issued
    ELSE \E id \in Ids :
           /\ saveProjectCreate(db, id, title, link, desc, img)
           /\ issued' = [issued EXCEPT !.projects = @ \cup {id}]

\* saveProject after "const img = await fileToBase64(file)"
saveProjectRest(title, link, desc, img) ==
  saveProjectWith(loadDB(storage).val, title, link, desc, img)

\* the locals of a saveProject suspended at its await; mode records what
\* editingProjectId was when the handler was invoked
ProjectCont(title, link, desc, file) ==
  [fn |-> "saveProject", title |-> title, link |-> link, desc |-> desc,
   file |-> file, mode |-> editingProjectId]

\* async function saveProject(): up to the await
saveProject(form) ==
  /\ Step
  /\ LET title == Trim(form.title)
         link == Trim(form.link)
         desc == Trim(form.desc)
     IN
     IF title = <<>>
       THEN /\ out' = Alert("saveProject", editingProjectId, "Title required")
            /\ UNCHANGED <<storage, issued, pending>>
     ELSE IF ~Truthy(form.file)
       THEN /\ saveProjectRest(title, link, desc, JNull)
            /\ UNCHANGED pending
       ELSE /\ Cardinality(pending) < MaxPending
            /\ pending' = pending \cup {ProjectCont(title, link, desc, form.file)}
            /\ out' = Quiet("saveProject", editingProjectId)
            /\ UNCHANGED <<storage, issued>>
  /\ NoUiChange
  /\ UNCHANGED probe

\* reader.onload: fileToBase64 resolves and saveProject runs on
saveProjectLoaded(k) ==
  /\ k.fn = "saveProject"
  /\ Step
  /\ pending' = pending \ {k}
  /\ saveProjectRest(k.title, k.link, k.desc, DataURL(k.file))
  /\ NoUiChange
  /\ UNCHANGED probe

\* deleteProject from "const db = loadDB()" on
deleteProjectWith(db, id) ==
  IF ~HasArray(db, "projects")
    THEN NoCommit(Thrown("deleteProject", id, "TypeError"))
    ELSE Commit(saveDB(Put(db, "projects", FilterOutId(Get(db, "projects"), id))),
                Toast("deleteProject", id, "Project deleted"))

\* function deleteProject(id)
deleteProject(id) ==
  /\ Step
  /\ deleteProjectWith(loadDB(storage).val, id)
  /\ NoUiChange
  /\ UNCHANGED <<pending, issued, probe>>

(***************************************************************************)
(* Contact handling                                                        *)
(***************************************************************************)
\* what the contact form's fields can hold when it is submitted
ContactForms ==
  { [name |-> <<"n">>, email |-> <<"m", "e">>, subject |-> <<>>,
     message |-> <<" ", "y", "o">>, endpoint |-> <<>>],
    [name |-> <<"n", " ">>, email |-> <<"m", "e">>, subject |-> <<"s">>,
     message |-> <<"y", "o">>, endpoint |-> <<"u", "r", "l">>],
    [name |-> <<"n">>, email |-> <<"m", "e">>, subject |-> <<"s">>,
     message |-> <<" ">>, endpoint |-> <<>>],
    [name |-> <<>>, email |-> <<"m", "e">>, subject |-> <<>>,
     message |-> <<"y", "o">>, endpoint |-> <<"u", "r", "l">>],
    [name |-> <<"n">>, email |-> <<" ", " ">>, subject |-> <<>>,
     message |-> <<"y", "o">>, endpoint |-> <<>>] }

\* const payload = { name, email, subject, message, created: nowISO() }
Payload(name, email, subject, message, now) ==
  JObj(<<Prop("name", JStr(name)), Prop("email", JStr(email)),
         Prop("subject", JStr(subject)), Prop("message", JStr(message)),
         Prop("created", nowISO(now))>>)

\* { id: uid(), ...payload }
NewMessage(id, payload) == JObj(<<Prop("id", id)>> \o payload.o)

\* saveLocalMessage from "const db = loadDB()" on
saveLocalMessageWith(db, payload, msg) ==
  IF ~HasArray(db, "messages")
    THEN /\ NoCommit(Thrown("submit", JNull, "TypeError"))
         /\ UNCHANGED issued
    ELSE \E id \in Ids :
           /\ Commit(saveDB(Put(db, "messages",
                                Push(Get(db, "messages"), NewMessage(id, payload)))),
                     Toast("submit", JNull, msg))
           /\ issued' = [issued EXCEPT !.messages = @ \cup {id}]

\* function saveLocalMessage(payload), then the toast its caller shows
saveLocalMessage(payload, msg) ==
  saveLocalMessageWith(loadDB(storage).val, payload, msg)

\* the locals of a submit handler suspended at "await fetch(...)"
FetchCont(payload, endpoint) ==
  [fn |-> "submit", payload |-> payload, endpoint |-> endpoint]

\* the required-field test without "!message"
MissingContactField_noMessage(name, email, message) ==
  name = <<>> \/ email = <<>>

\* !name || !email || !message
MissingContactField(name, email, message) ==
  name = <<>> \/ email = <<>> \/ message = <<>>

\* contactForm.addEventListener('submit', ...): up to the await
submitContact(form) ==
  /\ Step
  /\ LET name == Trim(form.name)
         email == Trim(form.email)
         subject == Trim(form.subject)
         message == Trim(form.message)
         endpoint == Trim(form.endpoint)
     IN
     IF MissingContactField(name, email, message)
       THEN /\ out' = Alert("submit", JNull, "Fill required fields")
            /\ UNCHANGED <<storage, issued, pending>>
     ELSE IF endpoint # <<>>
       THEN /\ Cardinality(pending) < MaxPending
            /\ pending' = pending \cup
                 {FetchCont(Payload(name, email, subject, message, clock), endpoint)}
            /\ out' = Quiet("submit", JNull)
            /\ UNCHANGED <<storage, issued>>
       ELSE /\ saveLocalMessage(Payload(name, email, subject, message, clock),
                                "Message saved locally")
            /\ UNCHANGED pending
  /\ NoUiChange
  /\ UNCHANGED probe

\* fetch resolved with res.ok
fetchOk(k) ==
  /\ k.fn = "submit"
  /\ Step
  /\ pending' = pending \ {k}
  /\ out' = Toast("submit", JNull, "Message sent via Formspree")
  /\ NoUiChange
  /\ UNCHANGED <<storage, issued, probe>>

\* saveLocalMessage(payload) on a slot: what it leaves in the slot and
\* whether it threw (at db.messages.push, or in saveDB after the write)
saveLocalMessageOn(db, store, id, payload) ==
  IF ~HasArray(db, "messages")
    THEN [storage |-> store, throws |-> TRUE]
    ELSE saveDB(Put(db, "messages", Push(Get(db, "messages"), NewMessage(id, payload))))

\* the else branch of the try: toast, saveLocalMessage(payload) (first); an
\* exception of it lands in the catch block, which calls
\* saveLocalMessage(payload) once more (second) and then shows its toast
fetchNotOkWith(first, second, id, id2) ==
  IF ~first.throws
    THEN /\ storage' = first.storage
         /\ out' = Toast("submit", JNull, "Formspree returned error; saved locally")
         /\ issued' = [issued EXCEPT !.messages = @ \cup {id}]
    ELSE /\ storage' = second.storage
         /\ out' = IF second.throws THEN Thrown("submit", JNull, "TypeError")
                   ELSE Toast("submit", JNull, "Network error; saved locally")
         /\ issued' = [issued EXCEPT !.messages =
                         @ \cup (IF first.storage # storage THEN {id} ELSE {})
                           \cup (IF second.storage # first.storage THEN {id2} ELSE {})]

\* fetch resolved with a response that is not ok
fetchNotOk(k) ==
  /\ k.fn = "submit"
  /\ Step
  /\ pending' = pending \ {k}
  /\ \E id, id2 \in Ids :
       fetchNotOkWith(saveLocalMessageOn(loadDB(storage).val, storage, id, k.payload),
                      saveLocalMessageOn(
                        loadDB(saveLocalMessageOn(loadDB(storage).val, storage, id,
                                                  k.payload).storage).val,
                        saveLocalMessageOn(loadDB(storage).val, storage, id,
                                           k.payload).storage,
                        id2, k.payload),
                      id, id2)
  /\ NoUiChange
  /\ UNCHANGED probe

\* fetch rejected: the catch block
fetchFailed(k) ==
  /\ k.fn = "submit"
  /\ Step
  /\ pending' = pending \ {k}
  /\ saveLocalMessage(k.payload, "Network error; saved locally")
  /\ NoUiChange
  /\ UNCHANGED probe

(***************************************************************************)
(* Crypto: hash password                                                   *)
(***************************************************************************)
Alphabet == <<" ", "a", "b", "c", "e", "m", "o", "u", "y">>
\* the code unit TextEncoder writes for a character
CharCode(c) == CHOOSE i \in 1..Len(Alphabet) : Alphabet[i] = c

RECURSIVE SumCodes(_)
SumCodes(chars) ==
  IF chars = <<>> THEN 0 ELSE CharCode(Head(chars)) + SumCodes(Tail(chars))

HexDigits == <<"0", "1", "2", "3", "4", "5", "6", "7", "8", "9",
               "a", "b", "c", "d", "e", "f">>
\* b.toString(16).padStart(2,'0')
HexByte(b) == <<HexDigits[(b \div 16) + 1], HexDigits[(b % 16) + 1]>>

\* async function hashText(text): a digest of fixed size, rendered in hex.
\* SHA-256 is narrowed to one byte, so that distinct texts with the same
\* digest exist within the inputs
hashText(text) == JStr(HexByte(SumCodes(text) % 256))

(***************************************************************************)
(* Admin (client-side)                                                     *)
(***************************************************************************)
\* what the admin email and password fields can hold
AdminInputs ==
  { [email |-> <<" ", "m", "e">>, pass |-> <<"a", "b">>],
    [email |-> <<"m", "e">>, pass |-> <<"b", "a">>],
    [email |-> <<"y", "o", "u">>, pass |-> <<"a", "b">>],
    [email |-> <<"m", "e">>, pass |-> <<"c">>],
    [email |-> <<" ">>, pass |-> <<"c">>],
    [email |-> <<"m", "e">>, pass |-> <<>>] }

\* { email, passHash }
Credential(email, passHash) ==
  JObj(<<Prop("email", JStr(email)), Prop("passHash", passHash)>>)

\* the locals of a setupAdmin or loginAdmin suspended at "await hashText(pass)"
SetupCont(email, pass) == [fn |-> "setupAdmin", email |-> email, pass |-> pass]
LoginCont(email, pass, db) ==
  [fn |-> "loginAdmin", email |-> email, pass |-> pass, db |-> db]

\* async function setupAdmin(): up to the await
setupAdmin(cred) ==
  /\ Step
  /\ LET email == Trim(cred.email)
         pass == cred.pass
     IN
     IF email = <<>> \/ pass = <<>>
       THEN /\ out' = Alert("setupAdmin", JNull, "Email + password required")
            /\ UNCHANGED pending
       ELSE /\ Cardinality(pending) < MaxPending
            /\ pending' = pending \cup {SetupCont(email, pass)}
            /\ out' = Quiet("setupAdmin", JNull)
  /\ NoUiChange
  /\ UNCHANGED <<storage, issued, probe>>

\* setupAdminWith saving a new document that holds only the credential
setupAdminWith_newDocument(db, email, passHash) ==
  IF ~IsObject(db)
    THEN NoCommit(Thrown("setupAdmin", JNull, "TypeError"))
    ELSE Commit(saveDB(Put(FreshDefault, "admin", Credential(email, passHash))),
                Toast("setupAdmin", JNull, "Admin created (local)"))

\* setupAdmin from "const db = loadDB()" on
setupAdminWith(db, email, passHash) ==
  IF ~IsObject(db)
    THEN NoCommit(Thrown("setupAdmin", JNull, "TypeError"))
    ELSE Commit(saveDB(Put(db, "admin", Credential(email, passHash))),
                Toast("setupAdmin", JNull, "Admin created (local)"))

\* setupAdmin after "const passHash = await hashText(pass)"
setupAdminHashed(k) ==
  /\ k.fn = "setupAdmin"
  /\ Step
  /\ pending' = pending \ {k}
  /\ setupAdminWith(loadDB(storage).val, k.email, hashText(k.pass))
  /\ NoUiChange
  /\ UNCHANGED <<issued, probe>>

\* loginAdminWith without "if(!db.admin) return alert(...)"
loginAdminWith_noAdminCheck(db, email, pass) ==
  IF ~IsObject(db)
    THEN /\ out' = Thrown("loginAdmin", JNull, "TypeError")
         /\ UNCHANGED pending
    ELSE /\ Cardinality(pending) < MaxPending
         /\ pending' = pending \cup {LoginCont(email, pass, db)}
         /\ out' = Quiet("loginAdmin", JNull)

\* loginAdmin from "const db = loadDB()" to the await
loginAdminWith(db, email, pass) ==
  IF ~IsObject(db)
    THEN /\ out' = Thrown("loginAdmin", JNull, "TypeError")
         /\ UNCHANGED pending
  ELSE IF ~Truthy(Get(db, "admin"))
    THEN /\ out' = Alert("loginAdmin", JNull, "No admin set. Use Create Admin.")
         /\ UNCHANGED pending
    ELSE /\ Cardinality(pending) < MaxPending
         /\ pending' = pending \cup {LoginCont(email, pass, db)}
         /\ out' = Quiet("loginAdmin", JNull)

\* async function loginAdmin(): up to the await; db is loaded before it
loginAdmin(cred) ==
  /\ Step
  /\ IF Trim(cred.email) = <<>> \/ cred.pass = <<>>
       THEN /\ out' = Alert("loginAdmin", JNull, "Email + password required")
            /\ UNCHANGED pending
       ELSE loginAdminWith(loadDB(storage).val, Trim(cred.email), cred.pass)
  /\ NoUiChange
  /\ UNCHANGED <<storage, issued, probe>>

\* the comparison without "db.admin.email === email"
CredentialsMatch_ignoresEmail(admin, email, passHash) ==
  /\ IsObject(admin)
  /\ Get(admin, "passHash") = passHash

\* db.admin.email === email && db.admin.passHash === passHash
CredentialsMatch(admin, email, passHash) ==
  /\ IsObject(admin)
  /\ Get(admin, "email") = JStr(email)
  /\ Get(admin, "passHash") = passHash

\* loginAdmin after "const passHash = await hashText(pass)"
loginAdminHashed(k) ==
  /\ k.fn = "loginAdmin"
  /\ Step
  /\ pending' = pending \ {k}
  /\ IF CredentialsMatch(Get(k.db, "admin"), k.email, hashText(k.pass))
       THEN /\ panel' = TRUE
            /\ out' = Toast("loginAdmin", JNull, "Logged in")
       ELSE /\ panel' = panel
            /\ out' = Alert("loginAdmin", JNull, "Invalid credentials")
  /\ UNCHANGED <<storage, editingThoughtId, editingWorkId, editingProjectId,
                 issued, probe>>

\* function logout()
logout ==
  /\ Step
  /\ panel' = FALSE
  /\ out' = Toast("logout", JNull, "Logged out")
  /\ UNCHANGED <<storage, editingThoughtId, editingWorkId, editingProjectId,
                 pending, issued, probe>>

(***************************************************************************)
(* Environment                                                             *)
(***************************************************************************)
\* reader.onerror: fileToBase64 rejects, the awaiting handler ends with an
\* unhandled rejection
ReadFailed(k) ==
  /\ k.fn \in {"saveThought", "saveWork", "saveProject"}
  /\ Step
  /\ pending' = pending \ {k}
  /\ out' = Thrown(k.fn, JNull, "ReadError")
  /\ NoUiChange
  /\ UNCHANGED <<storage, issued, probe>>

\* initApp(): draws the page again from the store
initApp == UNCHANGED <<editingThoughtId, editingWorkId, editingProjectId, panel>>

\* function resetDB(): removeItem, toast, initApp()
resetDB ==
  /\ Step
  /\ storage' = removeItem
  /\ out' = Toast("resetDB", JNull, "DB cleared")
  /\ initApp
  /\ UNCHANGED <<pending, issued, probe>>

(***************************************************************************)
(* The store called directly                                               *)
(***************************************************************************)
NoProbe == [op |-> "none", saved |-> JUndef, ret |-> Return(JUndef)]

\* documents the handlers above build
SampleThought1 == NewThought(JStr(<<"a">>), <<"A">>, JStr(<<"T", "e", "c", "h">>),
                             <<"h", "i">>, JNull, 1)
SampleThought2 == EditThought(NewThought(JStr(<<"b">>), <<"B">>, JStr(Uncategorized),
                                         <<>>, DataURL(File(<<"x">>)), 2),
                              <<"C">>, JStr(Uncategorized), <<"h", "i">>, JNull, 3)
SampleWork == NewWork(JStr(<<"a">>), <<"W">>, ParseTags(<<"x", ",", "y">>), <<>>, JNull, 1)
SampleProject == NewProject(JStr(<<"b">>), <<"P">>, <<"u", "r", "l">>, <<>>,
                            DataURL(File(<<"z">>)), 2)
SampleMessage == NewMessage(JStr(<<"a">>),
                            Payload(<<"n">>, <<"m", "e">>, <<>>, <<"y", "o">>, 1))

Document(thoughts, work, projects, messages, admin) ==
  JObj(<<Prop("thoughts", JArr(thoughts)), Prop("work", JArr(work)),
         Prop("projects", JArr(projects)), Prop("messages", JArr(messages)),
         Prop("admin", admin)>>)

\* valid documents: four record sequences and a credential or null
ValidDocs ==
  { Document(th, w, pr, m, ad) :
      th \in {<<>>, <<SampleThought1>>, <<SampleThought1, SampleThought2>>},
      w \in {<<>>, <<SampleWork>>},
      pr \in {<<>>, <<SampleProject>>},
      m \in {<<>>, <<SampleMessage>>},
      ad \in {JNull, Credential(<<"m", "e">>, hashText(<<"a", "b">>))} }

\* what localStorage[DB_KEY] can hold when the page is opened: nothing, the
\* empty string, texts that are not JSON, JSON of another shape, a document
SlotContents ==
  { JNull,
    Text(<<>>),
    Text(<<BadToken>>),
    Text(<<Punct("{")>>),
    Text(<<Punct("{"), JStr("thoughts"), Punct(":"), Punct("["), Punct("}")>>),
    Text(JSON_stringify(DEFAULT_DB) \o <<BadToken>>),
    Text(<<JNull>>),
    Text(<<JNum("5")>>),
    Text(<<JStr(<<"h", "i">>)>>),
    Text(<<Punct("["), Punct("]")>>),
    Text(<<Punct("{"), Punct("}")>>),
    Text(<<Punct("{"), JStr("thoughts"), Punct(":"), Punct("["), Punct("]"),
           Punct("}")>>),
    Text(JSON_stringify(Put(DEFAULT_DB, "work", JNull))),
    Text(JSON_stringify(Put(DEFAULT_DB, "admin", JStr(<<"m", "e">>)))),
    Text(JSON_stringify(DEFAULT_DB)),
    Text(JSON_stringify(Document(<<SampleThought1>>, <<>>, <<>>, <<>>, JNull))) }

\* a call of loadDB()
callLoadDB ==
  /\ probe' = [op |-> "loadDB", saved |-> probe.saved, ret |-> loadDB(storage)]
  /\ UNCHANGED <<storage, editingThoughtId, editingWorkId, editingProjectId, panel,
                 pending, clock, issued, out, budget>>

\* a call of saveDB(doc)
callSaveDB(doc) ==
  /\ LET sv == saveDB(doc) IN
     /\ storage' = sv.storage
     /\ probe' = [op |-> "saveDB", saved |-> doc,
                  ret |-> IF sv.throws THEN Throw("TypeError") ELSE Return(JUndef)]
  /\ UNCHANGED <<editingThoughtId, editingWorkId, editingProjectId, panel,
                 pending, clock, issued, out, budget>>

(***************************************************************************)
(* Specifications                                                          *)
(***************************************************************************)
\* the page as loaded with an empty localStorage
Fresh ==
  /\ storage = JNull
  /\ editingThoughtId = JNull
  /\ editingWorkId = JNull
  /\ editingProjectId = JNull
  /\ panel = FALSE
  /\ pending = {}
  /\ clock = 0
  /\ issued = [thoughts |-> {}, work |-> {}, projects |-> {}, messages |-> {}]
  /\ out = Quiet("load", JNull)
  /\ probe = NoProbe

Init == Fresh /\ budget = MaxOps

Next ==
  \/ \E id \in {JNull} \cup issued.thoughts : openThoughtEditorFor(id)
  \/ \E form \in ThoughtForms : saveThought(form)
  \/ \E k \in pending : saveThoughtLoaded(k)
  \/ \E id \in issued.thoughts : deleteThought(id)
  \/ \E id \in {JNull} \cup issued.work : openWorkEditorFor(id)
  \/ \E form \in WorkForms : saveWork(form)
  \/ \E k \in pending : saveWorkLoaded(k)
  \/ \E id \in issued.work : deleteWork(id)
  \/ \E id \in {JNull} \cup issued.projects : openProjectEditorFor(id)
  \/ \E form \in ProjectForms : saveProject(form)
  \/ \E k \in pending : saveProjectLoaded(k)
  \/ \E id \in issued.projects : deleteProject(id)
  \/ \E k \in pending : ReadFailed(k)
  \/ \E form \in ContactForms : submitContact(form)
  \/ \E k \in pending : fetchOk(k)
  \/ \E k \in pending : fetchNotOk(k)
  \/ \E k \in pending : fetchFailed(k)
  \/ \E cred \in AdminInputs : setupAdmin(cred)
  \/ \E k \in pending : setupAdminHashed(k)
  \/ \E cred \in AdminInputs : loginAdmin(cred)
  \/ \E k \in pending : loginAdminHashed(k)
  \/ logout
  \/ resetDB

\* the whole page
Spec == Init /\ [][Next]_vars

InitCrud == Fresh /\ budget = MaxCrudOps

NextCrud ==
  \/ \E id \in {JNull} \cup issued.thoughts : openThoughtEditorFor(id)
  \/ \E form \in ThoughtForms : saveThought(form)
  \/ \E k \in pending : saveThoughtLoaded(k)
  \/ \E id \in issued.thoughts : deleteThought(id)
  \/ \E id \in {JNull} \cup issued.work : openWorkEditorFor(id)
  \/ \E form \in WorkForms : saveWork(form)
  \/ \E k \in pending : saveWorkLoaded(k)
  \/ \E id \in issued.work : deleteWork(id)
  \/ \E id \in {JNull} \cup issued.projects : openProjectEditorFor(id)
  \/ \E form \in ProjectForms : saveProject(form)
  \/ \E k \in pending : saveProjectLoaded(k)
  \/ \E id \in issued.projects : deleteProject(id)
  \/ \E k \in pending : ReadFailed(k)

\* the three editors and their lists, in longer sessions
SpecCrud == InitCrud /\ [][NextCrud]_vars

InitAdmin == Fresh /\ budget = MaxAdminOps

NextAdmin ==
  \/ \E cred \in AdminInputs : setupAdmin(cred)
  \/ \E k \in pending : setupAdminHashed(k)
  \/ \E cred \in AdminInputs : loginAdmin(cred)
  \/ \E k \in pending : loginAdminHashed(k)
  \/ logout
  \/ resetDB

\* the admin gate, in longer sessions
SpecAdmin == InitAdmin /\ [][NextAdmin]_vars

InitStore ==
  /\ storage \in SlotContents
  /\ editingThoughtId = JNull
  /\ editingWorkId = JNull
  /\ editingProjectId = JNull
  /\ panel = FALSE
  /\ pending = {}
  /\ clock = 0
  /\ issued = [thoughts |-> {}, work |-> {}, projects |-> {}, messages |-> {}]
  /\ out = Quiet("load", JNull)
  /\ probe = NoProbe
  /\ budget = 0

NextStore ==
  \/ callLoadDB
  \/ \E doc \in ValidDocs : callSaveDB(doc)

\* loadDB and saveDB over every slot content
SpecStore == InitStore /\ [][NextStore]_vars

\* the document after setupAdmin with email me and password ab
SignedUpDoc ==
  Put(DEFAULT_DB, "admin", Credential(<<"m", "e">>, hashText(<<"a", "b">>)))

\* after setupAdmin and two more steps: a loginAdmin that succeeded (panel
\* shown) or none (panel hidden, the last step a logout)
InitSignedUp ==
  /\ storage = Text(JSON_stringify(SignedUpDoc))
  /\ editingThoughtId = JNull
  /\ editingWorkId = JNull
  /\ editingProjectId = JNull
  /\ panel \in BOOLEAN
  /\ pending = {}
  /\ clock = 4
  /\ issued = [thoughts |-> {}, work |-> {}, projects |-> {}, messages |-> {}]
  /\ out = IF panel THEN Toast("loginAdmin", JNull, "Logged in")
                    ELSE Toast("logout", JNull, "Logged out")
  /\ probe = NoProbe
  /\ budget = MaxSignedUpOps

NextSignedUp ==
  \/ NextCrud
  \/ \E cred \in AdminInputs : setupAdmin(cred)
  \/ \E k \in pending : setupAdminHashed(k)

\* the editors and setupAdmin, with and without a login behind them
SpecSignedUp == InitSignedUp /\ [][NextSignedUp]_vars

\* what the page can find under DB_KEY when it starts: no item, a document
\* saved earlier, or a JSON object with a messages array and no other
\* collection, which loadDB returns as it is
InitRelay ==
  /\ storage \in
       { JNull,
         Text(JSON_stringify(Document(<<>>, <<>>, <<>>, <<SampleMessage>>, JNull))),
         Text(JSON_stringify(JObj(<<Prop("messages", JArr(<<>>))>>))) }
  /\ editingThoughtId = JNull
  /\ editingWorkId = JNull
  /\ editingProjectId = JNull
  /\ panel = FALSE
  /\ pending = {}
  /\ clock = 0
  /\ issued = [thoughts |-> {}, work |-> {}, projects |-> {},
               messages |-> {}]
  /\ out = Quiet("load", JNull)
  /\ probe = NoProbe
  /\ budget = MaxRelayOps

NextRelay ==
  \/ \E form \in ContactForms : submitContact(form)
  \/ \E k \in pending : fetchOk(k)
  \/ \E k \in pending : fetchNotOk(k)
  \/ \E k \in pending : fetchFailed(k)

\* the contact form over every slot the page can find
SpecRelay == InitRelay /\ [][NextRelay]_vars

\* after a thought, a work item and a project were each saved with an image
\* (two steps each: the save, then its image encoding), the last one shown
InitImages ==
  /\ storage = Text(JSON_stringify(Document(
         <<NewThought(JStr(<<"a">>), <<"A">>, JStr(<<"T", "e", "c", "h">>), <<"h", "i">>,
                      DataURL(File(<<"o">>)), 2)>>,
         <<NewWork(JStr(<<"a">>), <<"W">>, ParseTags(<<"x", ",", "y">>), <<>>,
                   DataURL(File(<<"o">>)), 4)>>,
         <<NewProject(JStr(<<"a">>), <<"P">>, <<"u", "r", "l">>, <<>>,
                      DataURL(File(<<"o">>)), 6)>>,
         <<>>, JNull)))
  /\ editingThoughtId = JNull
  /\ editingWorkId = JNull
  /\ editingProjectId = JNull
  /\ panel = FALSE
  /\ pending = {}
  /\ clock = 6
  /\ issued = [thoughts |-> {JStr(<<"a">>)}, work |-> {JStr(<<"a">>)},
               projects |-> {JStr(<<"a">>)}, messages |-> {}]
  /\ out = Toast("saveProject", JNull, "Project saved")
  /\ probe = NoProbe
  /\ budget = MaxImageOps

\* the three editors over records that hold an image
SpecImages == InitImages /\ [][NextCrud]_vars

(***************************************************************************)
(* Properties of the store                                                 *)
(***************************************************************************)
\* the empty default document, field by field
IsEmptyDefault(doc) ==
  /\ IsObject(doc)
  /\ Get(doc, "thoughts") = JArr(<<>>)
  /\ Get(doc, "work") = JArr(<<>>)
  /\ Get(doc, "projects") = JArr(<<>>)
  /\ Get(doc, "messages") = JArr(<<>>)
  /\ Get(doc, "admin") = JNull

\* the document shape: four sequences, and a credential or no admin
IsCredential(x) ==
  /\ IsObject(x)
  /\ Get(x, "email").t = "str"
  /\ Get(x, "passHash").t = "str"

HasDocumentShape(doc) ==
  /\ IsObject(doc)
  /\ \A name \in {"thoughts", "work", "projects", "messages"} : IsArray(Get(doc, name))
  /\ Get(doc, "admin") = JNull \/ IsCredential(Get(doc, "admin"))

\* C1: a loadDB() that follows saveDB(d) returns a document equal to d,
\* whatever the slot held before the save.
C1_RoundTrip ==
  (probe.op = "loadDB" /\ probe.saved # JUndef)
    => (~probe.ret.throws /\ probe.ret.val = probe.saved)

\* a document with two thoughts and an admin was saved over a slot that held
\* something, and loaded back
C1_Witness ==
  /\ probe.op = "loadDB"
  /\ probe.saved # JUndef
  /\ Len(Get(probe.saved, "thoughts").a) = 2
  /\ Get(probe.saved, "admin") # JNull
  /\ Get(probe.saved, "work") = JArr(<<>>)

\* C2: loadDB() never raises, and returns the empty default document when
\* the slot is missing, empty or holds text that is not JSON.
C2_LoadNeverRaises ==
  probe.op = "loadDB" =>
    /\ ~probe.ret.throws
    /\ (IF storage = JNull THEN TRUE
        ELSE IF storage.x = <<>> THEN TRUE
        ELSE JSON_parse(storage.x).throws) => IsEmptyDefault(probe.ret.val)

\* loadDB() was called on a slot holding text that is not JSON
C2_Witness ==
  /\ probe.op = "loadDB"
  /\ storage # JNull
  /\ storage.x # <<>>
  /\ JSON_parse(storage.x).throws
  /\ IsEmptyDefault(probe.ret.val)

\* C3: whatever the slot holds, loadDB() returns a value of the document
\* shape or the empty default document.
C3_LoadedShape ==
  probe.op = "loadDB" =>
    /\ ~probe.ret.throws
    /\ HasDocumentShape(probe.ret.val) \/ IsEmptyDefault(probe.ret.val)

(***************************************************************************)
(* Properties of the editors                                               *)
(***************************************************************************)
CrudCollections == {"thoughts", "work", "projects"}
OpenOps == [thoughts |-> "openThoughtEditorFor", work |-> "openWorkEditorFor",
            projects |-> "openProjectEditorFor"]
SaveOps == [thoughts |-> "saveThought", work |-> "saveWork", projects |-> "saveProject"]
DeleteOps == [thoughts |-> "deleteThought", work |-> "deleteWork",
              projects |-> "deleteProject"]
UpdatedToasts == [thoughts |-> "Thought updated", work |-> "Work updated",
                  projects |-> "Project updated"]

\* the persisted document, and one of its collections
DocOf(store) == loadDB(store).val
Records(store, name) == Get(DocOf(store), name).a

EditingId(name) ==
  CASE name = "thoughts" -> editingThoughtId
    [] name = "work" -> editingWorkId
    [] name = "projects" -> editingProjectId

IdOf(rec) == Get(rec, "id")
UniqueIds(recs) ==
  \A i, j \in 1..Len(recs) : i # j => IdOf(recs[i]) # IdOf(recs[j])

RemoveAt(seq, i) == SubSeq(seq, 1, i - 1) \o SubSeq(seq, i + 1, Len(seq))

\* this step is a save that edited a record of the collection
IsEditStep(name) == out'.op = SaveOps[name] /\ out'.msg = UpdatedToasts[name]

\* C4: no two records of a collection share an id, and an id once handed out
\* in a collection is not given to a record created later.
C4_IdsUniqueNeverReused ==
  [][\A name \in CrudCollections :
       \A old \in {Records(storage, name)} :
       \A new \in {Records(storage', name)} :
          /\ UniqueIds(new)
          /\ Len(new) = Len(old) + 1 => IdOf(new[Len(new)]) \notin issued[name]
    ]_vars

\* C5: a delete removes exactly the one record with the id: the others stay,
\* unchanged and in order, and the length drops by one when the id was there.
C5_DeleteRemovesExactlyOne ==
  [][\A name \in CrudCollections :
       out'.op = DeleteOps[name] =>
         \A old \in {Records(storage, name)} :
         \A new \in {Records(storage', name)} :
         \A i \in {FindIndex(JArr(old), out'.arg)} :
            IF i = 0 THEN new = old ELSE new = RemoveAt(old, i)
    ]_vars

\* C6: an edit keeps every record's id and created and stamps updated on the
\* edited record; no step changes the created of a record that stays.
C6_EditKeepsIdAndCreated ==
  [][\A name \in CrudCollections :
       \A old \in {Records(storage, name)} :
       \A new \in {Records(storage', name)} :
       \A target \in {FindIndex(JArr(old), EditingId(name))} :
          /\ IsEditStep(name) =>
               /\ Len(new) = Len(old)
               /\ target > 0
               /\ Get(new[target], "updated") = nowISO(clock)
          /\ Len(new) >= Len(old) =>
               \A i \in 1..Len(old) :
                 /\ IdOf(new[i]) = IdOf(old[i])
                 /\ Get(new[i], "created") = Get(old[i], "created")
          /\ Len(new) < Len(old) =>
               \A j \in 1..Len(new) : \E i \in j..Len(old) : new[j] = old[i]
    ]_vars

\* a work item was edited at a later time than it was created
C6_Witness ==
  /\ out.op = "saveWork"
  /\ out.msg = "Work updated"
  /\ \E recs \in {Records(storage, "work")} :
       \E i \in 1..Len(recs) :
         /\ HasKey(recs[i], "updated")
         /\ Get(recs[i], "updated") # Get(recs[i], "created")

\* C7: a created record has no updated field, every edit sets it on the
\* record it edits, and no other step adds, changes or removes it.
C7_UpdatedIffEdited ==
  [][\A name \in CrudCollections :
       \A old \in {Records(storage, name)} :
       \A new \in {Records(storage', name)} :
       \A target \in {FindIndex(JArr(old), EditingId(name))} :
          /\ Len(new) = Len(old) + 1 =>
               /\ ~HasKey(new[Len(new)], "updated")
               /\ \A i \in 1..Len(old) : new[i] = old[i]
          /\ IsEditStep(name) => HasKey(new[target], "updated")
          /\ Len(new) = Len(old) =>
               \A i \in 1..Len(old) :
                 new[i] # old[i] =>
                   /\ IsEditStep(name)
                   /\ i = target
                   /\ Get(new[i], "updated") = nowISO(clock)
          /\ Len(new) < Len(old) =>
               \A j \in 1..Len(new) : \E i \in j..Len(old) : new[j] = old[i]
    ]_vars

\* a collection holds an edited record beside one that was never edited
C7_Witness ==
  \E name \in CrudCollections :
    \E recs \in {Records(storage, name)} :
      \E i, j \in 1..Len(recs) :
        /\ HasKey(recs[i], "updated")
        /\ ~HasKey(recs[j], "updated")

\* this step ran an editor open, a save (past its await and its title check)
\* or a delete on an id its collection does not hold
TargetsAbsentId(name) ==
  \E old \in {JArr(Records(storage, name))} :
  \/ /\ out'.op = OpenOps[name]
     /\ Truthy(out'.arg)
     /\ FindIndex(old, out'.arg) = 0
  \/ /\ out'.op = SaveOps[name]
     /\ out'.kind \notin {"none", "alert"}
     /\ out'.msg # "ReadError"
     /\ Truthy(EditingId(name))
     /\ FindIndex(old, EditingId(name)) = 0
  \/ /\ out'.op = DeleteOps[name]
     /\ FindIndex(old, out'.arg) = 0

\* C9: an open, save or delete on an absent id ends with a toast, raises
\* nothing and leaves the persisted document as it was.
C9_AbsentIdNotifies ==
  [][\A name \in CrudCollections :
       TargetsAbsentId(name) =>
         /\ out'.kind = "toast"
         /\ DocOf(storage') = DocOf(storage)
    ]_vars

(***************************************************************************)
(* Properties of the admin gate and of form validation                     *)
(***************************************************************************)
\* C8: a setupAdmin that completes stores the email and the digest of the
\* password it was given; a loginAdmin compares against the credential stored
\* when it started, reveals the panel when email and digest both equal it,
\* and otherwise alerts and leaves the panel as it was.
C8_LoginMatchesSetup ==
  [][/\ \A k \in pending \ pending' :
          (k.fn = "setupAdmin" /\ out'.kind = "toast") =>
            Get(DocOf(storage'), "admin") = Credential(k.email, hashText(k.pass))
     /\ \A k \in pending' \ pending :
          k.fn = "loginAdmin" =>
            /\ k.db = DocOf(storage)
            /\ Truthy(Get(k.db, "admin"))
     /\ \A k \in pending \ pending' :
          k.fn = "loginAdmin" =>
            \A admin \in {Get(k.db, "admin")} :
              IF /\ Get(admin, "email") = JStr(k.email)
                 /\ Get(admin, "passHash") = hashText(k.pass)
                THEN panel' = TRUE /\ out' = Toast("loginAdmin", JNull, "Logged in")
                ELSE panel' = panel /\ out'.kind = "alert"
    ]_vars

\* a login succeeded against a stored credential
C8_Witness ==
  /\ panel = TRUE
  /\ out = Toast("loginAdmin", JNull, "Logged in")
  /\ Truthy(Get(DocOf(storage), "admin"))

\* this step showed the alert and changed neither the slot, the panel nor
\* the suspended handlers
Blocked(op, msg) ==
  /\ out'.op = op
  /\ out'.kind = "alert"
  /\ out'.msg = msg
  /\ storage' = storage
  /\ panel' = panel
  /\ pending' = pending

RequiredFieldAlerts ==
  {"Title required", "Fill required fields", "Email + password required"}

\* C10: a save or submit with a required field missing shows its blocking
\* alert and leaves the persisted document and the login state as they were.
C10_MissingFieldBlocks ==
  [][/\ \A f \in ThoughtForms :
          (Trim(f.title) = <<>> /\ saveThought(f)) =>
            Blocked("saveThought", "Title required")
     /\ \A f \in WorkForms :
          (Trim(f.title) = <<>> /\ saveWork(f)) =>
            Blocked("saveWork", "Title required")
     /\ \A f \in ProjectForms :
          (Trim(f.title) = <<>> /\ saveProject(f)) =>
            Blocked("saveProject", "Title required")
     /\ \A f \in ContactForms :
          (/\ \/ Trim(f.name) = <<>>
              \/ Trim(f.email) = <<>>
              \/ Trim(f.message) = <<>>
           /\ submitContact(f)) =>
            Blocked("submit", "Fill required fields")
     /\ \A cred \in AdminInputs :
          ((Trim(cred.email) = <<>> \/ cred.pass = <<>>) /\ setupAdmin(cred)) =>
            Blocked("setupAdmin", "Email + password required")
     /\ \A cred \in AdminInputs :
          ((Trim(cred.email) = <<>> \/ cred.pass = <<>>) /\ loginAdmin(cred)) =>
            Blocked("loginAdmin", "Email + password required")
     /\ (out'.kind = "alert" /\ out'.msg \in RequiredFieldAlerts) =>
          (storage' = storage /\ panel' = panel)
    ]_vars

\* the contact form was refused while the slot held a document with an admin
C10_Witness ==
  /\ out = Alert("submit", JNull, "Fill required fields")
  /\ storage # JNull
  /\ Truthy(Get(DocOf(storage), "admin"))

(***************************************************************************)
(* Properties of the contact form                                          *)
(***************************************************************************)
AllCollections == {"thoughts", "work", "projects", "messages"}

\* the ids of the records of a list
IdsIn(recs) == {IdOf(recs[i]) : i \in 1..Len(recs)}

\* C11: a submission with its required fields and a relay endpoint keeps the
\* submitted values while the POST is in flight, and when the POST fails (a
\* response that is not ok, or a network error) the message is appended once
\* to messages, under an id no message had before and with those values; the
\* handler ends with a toast and is not queued again.
C11_FailedRelaySavedOnce ==
  [][/\ \A f \in ContactForms :
          (/\ Trim(f.name) # <<>> /\ Trim(f.email) # <<>>
           /\ Trim(f.message) # <<>> /\ Trim(f.endpoint) # <<>>
           /\ submitContact(f)) =>
            /\ storage' = storage
            /\ \E k \in pending' :
                 /\ pending' = pending \cup {k}
                 /\ k.fn = "submit"
                 /\ k.payload = Payload(Trim(f.name), Trim(f.email), Trim(f.subject),
                                        Trim(f.message), clock)
     /\ \A k \in pending :
          (k.fn = "submit" /\ (fetchNotOk(k) \/ fetchFailed(k))) =>
            \A old \in {Records(storage, "messages")} :
            \A new \in {Records(storage', "messages")} :
              /\ Len(new) = Len(old) + 1
              /\ SubSeq(new, 1, Len(old)) = old
              /\ new[Len(new)].o = <<Prop("id", IdOf(new[Len(new)]))>> \o k.payload.o
              /\ IdOf(new[Len(new)]) \notin IdsIn(old) \cup issued.messages
              /\ out'.kind = "toast"
              /\ pending' = pending \ {k}
    ]_vars

(***************************************************************************)
(* Properties of the suspended handlers                                    *)
(***************************************************************************)
SaveFns == {"saveThought", "saveWork", "saveProject"}
CollectionOf ==
  [saveThought |-> "thoughts", saveWork |-> "work", saveProject |-> "projects"]

\* new is old with at most the record at one position replaced
OnePlaceChanged(old, new) ==
  /\ Len(new) = Len(old)
  /\ \E i \in 1..Len(old) : \A j \in 1..Len(old) : j # i => new[j] = old[j]

\* C12: a save that was suspended at its image encoding works on the document
\* as it is when it resumes: the other collections and the admin credential
\* are kept as the steps in between left them, and its own collection is
\* that collection with one record appended or one record replaced.
C12_ResumedSaveKeepsOtherUpdates ==
  [][\A k \in pending \ pending' :
       (k.fn \in SaveFns /\ out'.op = k.fn) =>
         \A old \in {DocOf(storage)} :
         \A new \in {DocOf(storage')} :
           /\ \A name \in AllCollections \ {CollectionOf[k.fn]} :
                Get(new, name) = Get(old, name)
           /\ Get(new, "admin") = Get(old, "admin")
           /\ \A o \in {Get(old, CollectionOf[k.fn]).a} :
              \A n \in {Get(new, CollectionOf[k.fn]).a} :
                /\ \/ n = o
                   \/ Len(n) = Len(o) + 1 /\ SubSeq(n, 1, Len(o)) = o
                   \/ OnePlaceChanged(o, n)
                /\ (out'.kind = "toast" /\ out'.msg # "Not found") => n # o
    ]_vars

\* a thought with an image was saved in the third step, and the work item
\* beside it was created in the second, while that save was suspended
C12_Witness ==
  /\ clock = 3
  /\ out.op = "saveThought"
  /\ out.msg = "Thought saved"
  /\ \A doc \in {DocOf(storage)} :
       /\ Len(Get(doc, "thoughts").a) = 1
       /\ Get(Get(doc, "thoughts").a[1], "image") # JNull
       /\ Get(Get(doc, "thoughts").a[1], "created") = nowISO(2)
       /\ Len(Get(doc, "work").a) = 1
       /\ Get(Get(doc, "work").a[1], "created") = nowISO(1)

(***************************************************************************)
(* Properties of the lists                                                 *)
(***************************************************************************)
CreatedToasts ==
  [thoughts |-> {"Thought saved"}, work |-> {"Work saved"},
   projects |-> {"Project saved"},
   messages |-> {"Message saved locally", "Formspree returned error; saved locally",
                 "Network error; saved locally"}]

\* new is old without the records of one id, the rest in their order
SomeIdFilteredOut(old, new) ==
  \E id \in IdsIn(old) : new = SelectSeq(old, LAMBDA r : IdOf(r) # id)

\* the clock reading a timestamp of nowISO stands for
TimeOf(stamp) == CHOOSE c \in 0..(Len(Digits) - 1) : nowISO(c) = stamp

\* no record of the list was created later than a record after it
InCreationOrder(recs) ==
  \A i, j \in 1..Len(recs) :
    i < j => TimeOf(Get(recs[i], "created")) <= TimeOf(Get(recs[j], "created"))

\* C13: every collection lists its records in the order of their created
\* times; a create appends one record at the end, an edit keeps every record
\* at its position, and a delete (or any other step) keeps the order of the
\* records that remain.
C13_CreationOrder ==
  [][/\ storage' = storage =>
          /\ \A name \in AllCollections : out'.msg \notin CreatedToasts[name]
          /\ \A name \in CrudCollections : ~IsEditStep(name)
     /\ storage' # storage =>
          \A before \in {DocOf(storage)} :
          \A after \in {DocOf(storage')} :
          \A name \in AllCollections :
            \A old \in {Get(before, name).a} :
            \A new \in {Get(after, name).a} :
              /\ InCreationOrder(new)
              /\ \/ new = old
                 \/ Len(new) = Len(old) + 1 /\ SubSeq(new, 1, Len(old)) = old
                 \/ /\ Len(new) = Len(old)
                    /\ \A i \in 1..Len(old) : IdOf(new[i]) = IdOf(old[i])
                 \/ SomeIdFilteredOut(old, new)
                 \/ out'.op = "resetDB" /\ new = <<>>
              /\ out'.msg \in CreatedToasts[name] =>
                   /\ Len(new) = Len(old) + 1
                   /\ SubSeq(new, 1, Len(old)) = old
                   /\ Get(new[Len(new)], "created") \in {nowISO(c) : c \in 0..clock}
              /\ (name \in CrudCollections /\ IsEditStep(name)) =>
                   /\ Len(new) = Len(old)
                   /\ \A i \in 1..Len(old) : IdOf(new[i]) = IdOf(old[i])
              /\ (name \in CrudCollections /\ out'.op = DeleteOps[name]) =>
                   new = SelectSeq(old, LAMBDA r : IdOf(r) # out'.arg)
    ]_vars

(***************************************************************************)
(* Properties of create and delete                                         *)
(***************************************************************************)
\* new is old with one record appended
AppendsOne(old, new) ==
  Len(new) = Len(old) + 1 /\ SubSeq(new, 1, Len(old)) = old

\* the form of the example: title A, category Tech, content hi
ExampleThought ==
  [title |-> <<" ", "A">>, category |-> <<"T", "e", "c", "h">>,
   content |-> <<"h", "i">>, file |-> JUndef]

\* C14: a save in create mode with a title appends exactly one record, which
\* carries the entered (trimmed) title, category or tags or link, and content,
\* at once when no image is chosen and on resumption when one is; from the
\* empty store the example thought gives one record with title A and
\* category Tech, and a delete leaves no record of the deleted id, so the
\* collection of that single record becomes empty.
C14_CreateAddsOne ==
  [][/\ \A f \in ThoughtForms :
          (/\ Trim(f.title) # <<>> /\ ~Truthy(f.file) /\ ~Truthy(editingThoughtId)
           /\ out'.op = "saveThought" /\ saveThought(f)) =>
            \A old \in {Records(storage, "thoughts")} :
            \A new \in {Records(storage', "thoughts")} :
              /\ AppendsOne(old, new)
              /\ Get(new[Len(new)], "title") = JStr(Trim(f.title))
              /\ Get(new[Len(new)], "category") =
                   JStr(IF Trim(f.category) = <<>> THEN Uncategorized
                        ELSE Trim(f.category))
              /\ Get(new[Len(new)], "content") = JStr(Trim(f.content))
     /\ \A f \in WorkForms :
          (/\ Trim(f.title) # <<>> /\ ~Truthy(f.file) /\ ~Truthy(editingWorkId)
           /\ out'.op = "saveWork" /\ saveWork(f)) =>
            \A old \in {Records(storage, "work")} :
            \A new \in {Records(storage', "work")} :
              /\ AppendsOne(old, new)
              /\ Get(new[Len(new)], "title") = JStr(Trim(f.title))
              /\ Get(new[Len(new)], "tags") = ParseTags(f.tags)
              /\ Get(new[Len(new)], "content") = JStr(Trim(f.content))
     /\ \A f \in ProjectForms :
          (/\ Trim(f.title) # <<>> /\ ~Truthy(f.file) /\ ~Truthy(editingProjectId)
           /\ out'.op = "saveProject" /\ saveProject(f)) =>
            \A old \in {Records(storage, "projects")} :
            \A new \in {Records(storage', "projects")} :
              /\ AppendsOne(old, new)
              /\ Get(new[Len(new)], "title") = JStr(Trim(f.title))
              /\ Get(new[Len(new)], "link") = JStr(Trim(f.link))
              /\ Get(new[Len(new)], "desc") = JStr(Trim(f.desc))
     /\ \A k \in pending \ pending' :
          (/\ k.fn \in SaveFns /\ out'.op = k.fn /\ out'.msg # "ReadError"
           /\ ~Truthy(EditingId(CollectionOf[k.fn]))) =>
            \A old \in {Records(storage, CollectionOf[k.fn])} :
            \A new \in {Records(storage', CollectionOf[k.fn])} :
              /\ AppendsOne(old, new)
              /\ Get(new[Len(new)], "title") = JStr(k.title)
              /\ k.fn = "saveThought" =>
                   /\ Get(new[Len(new)], "category") = k.category
                   /\ Get(new[Len(new)], "content") = JStr(k.content)
              /\ k.fn = "saveWork" =>
                   /\ Get(new[Len(new)], "tags") = k.tags
                   /\ Get(new[Len(new)], "content") = JStr(k.content)
              /\ k.fn = "saveProject" =>
                   /\ Get(new[Len(new)], "link") = JStr(k.link)
                   /\ Get(new[Len(new)], "desc") = JStr(k.desc)
     /\ (storage = JNull /\ out'.op = "saveThought" /\ saveThought(ExampleThought)) =>
          \A new \in {Records(storage', "thoughts")} :
            /\ Len(new) = 1
            /\ Get(new[1], "title") = JStr(<<"A">>)
            /\ Get(new[1], "category") = JStr(<<"T", "e", "c", "h">>)
     /\ \A name \in CrudCollections :
          out'.op = DeleteOps[name] =>
            \A old \in {Records(storage, name)} :
            \A new \in {Records(storage', name)} :
              /\ out'.arg \notin IdsIn(new)
              /\ (Len(old) = 1 /\ IdOf(old[1]) = out'.arg) => new = <<>>
    ]_vars

\* the example thought was saved into the empty store and then deleted
C14_Witness ==
  /\ clock = 2
  /\ out.op = "deleteThought"
  /\ out.arg \in issued.thoughts
  /\ Records(storage, "thoughts") = <<>>

(***************************************************************************)
(* Properties of reset                                                     *)
(***************************************************************************)
\* C15: resetDB leaves no item in the slot, and a loadDB after it returns the
\* empty default document (four empty collections, no admin), whatever the
\* slot held before.
C15_ResetGivesDefault ==
  [][resetDB =>
       /\ storage' = JNull
       /\ \A r \in {loadDB(storage')} :
            /\ ~r.throws
            /\ IsEmptyDefault(r.val)
    ]_vars

\* the store was reset after a record had been saved in it
C15_Witness ==
  /\ out.op = "resetDB"
  /\ storage = JNull
  /\ \E name \in AllCollections : issued[name] # {}

(***************************************************************************)
(* Properties of the admin credential                                      *)
(***************************************************************************)
\* db.admin of the persisted document
AdminOf(store) == Get(DocOf(store), "admin")

\* C16: admin is null or one credential; it goes from absent to present only
\* in the step that completes a setupAdmin invoked with an email and a
\* password, as that credential; a loginAdmin invoked while no admin is set
\* ends in an alert and reveals nothing.
C16_AdminAbsentUntilSetup ==
  [][/\ storage' # storage =>
          \A was \in {AdminOf(storage)} :
          \A is \in {AdminOf(storage')} :
            /\ is = JNull \/ IsCredential(is)
            /\ (was = JNull /\ is # JNull) =>
                 \E k \in pending \ pending' :
                   /\ k.fn = "setupAdmin"
                   /\ k.email # <<>>
                   /\ k.pass # <<>>
                   /\ is = Credential(k.email, hashText(k.pass))
     /\ \A cred \in AdminInputs :
          (out'.op = "loginAdmin" /\ loginAdmin(cred) /\ AdminOf(storage) = JNull) =>
            /\ out'.kind = "alert"
            /\ panel' = panel
            /\ pending' = pending
    ]_vars

\* a setupAdmin completed in a store that held no admin before
C16_Witness ==
  /\ out = Toast("setupAdmin", JNull, "Admin created (local)")
  /\ IsCredential(AdminOf(storage))
  /\ \E name \in AllCollections : Records(storage, name) # <<>>

(***************************************************************************)
(* Properties of the editing ids                                           *)
(***************************************************************************)
\* C17: a save invoked while its editor was in create mode appends one record
\* to its collection and leaves the records already there as they were, also
\* when it was suspended at its image encoding in between.
C17_CreateModeSaveAppends ==
  [][\A k \in pending \ pending' :
       (/\ k.fn \in SaveFns
        /\ out'.op = k.fn
        /\ out'.msg # "ReadError"
        /\ ~Truthy(k.mode)) =>
         \A old \in {Records(storage, CollectionOf[k.fn])} :
         \A new \in {Records(storage', CollectionOf[k.fn])} :
           AppendsOne(old, new)
    ]_vars

\* C18: when a loginAdmin reveals the panel, the credential stored at that
\* moment has the submitted email and the digest of the submitted password.
C18_RevealMatchesStored ==
  [][\A k \in pending \ pending' :
       (k.fn = "loginAdmin" /\ panel' = TRUE /\ out'.msg = "Logged in") =>
         \A admin \in {AdminOf(storage')} :
           /\ IsObject(admin)
           /\ Get(admin, "email") = JStr(k.email)
           /\ Get(admin, "passHash") = hashText(k.pass)
    ]_vars

(***************************************************************************)
(* Properties of the mutating operations                                   *)
(***************************************************************************)
\* C19: with the admin panel shown or hidden alike, a delete removes the
\* records of its id, a save with a title appends a record in create mode and
\* replaces the edited record in edit mode, and a setupAdmin that completes
\* stores its credential in place of the one that was there.
C19_MutationsIgnoreLogin ==
  [][/\ \A name \in CrudCollections :
          (out'.op = DeleteOps[name] \/ out'.msg \in CreatedToasts[name]
             \/ IsEditStep(name)) =>
            \A old \in {Records(storage, name)} :
            \A new \in {Records(storage', name)} :
              /\ out'.op = DeleteOps[name] =>
                   /\ out'.kind = "toast"
                   /\ new = SelectSeq(old, LAMBDA r : IdOf(r) # out'.arg)
              /\ out'.msg \in CreatedToasts[name] => AppendsOne(old, new)
              /\ IsEditStep(name) => OnePlaceChanged(old, new) /\ new # old
     /\ \A name \in CrudCollections :
          (/\ out'.op = SaveOps[name]
           /\ out'.kind = "toast"
           /\ pending' \subseteq pending) =>
            IF Truthy(EditingId(name))
              THEN IsEditStep(name) \/ out'.msg = "Not found"
              ELSE out'.msg \in CreatedToasts[name]
     /\ \A k \in pending \ pending' :
          k.fn = "setupAdmin" =>
            /\ out' = Toast("setupAdmin", JNull, "Admin created (local)")
            /\ AdminOf(storage') = Credential(k.email, hashText(k.pass))
    ]_vars

\* with the panel hidden, a setupAdmin replaced the credential of another
\* email beside a thought saved before
C19_Witness ==
  /\ ~panel
  /\ out = Toast("setupAdmin", JNull, "Admin created (local)")
  /\ Records(storage, "thoughts") # <<>>
  /\ IsCredential(AdminOf(storage))
  /\ Get(AdminOf(storage), "email") # Get(Get(SignedUpDoc, "admin"), "email")

\* the handlers of each part of the document
HandlersOf ==
  [thoughts |-> {"openThoughtEditorFor", "saveThought", "deleteThought"},
   work |-> {"openWorkEditorFor", "saveWork", "deleteWork"},
   projects |-> {"openProjectEditorFor", "saveProject", "deleteProject"},
   messages |-> {"submit"}]

\* C20: a thought, work or project handler and the contact handler leave the
\* other collections and the admin credential as they were; setupAdmin
\* leaves the four collections as they were; loginAdmin and logout leave the
\* stored item as it was.
C20_OnlyOwnPartChanges ==
  [][/\ out'.op \in {"loginAdmin", "logout"} => storage' = storage
     /\ (storage' # storage /\ out'.op # "resetDB") =>
          \A before \in {DocOf(storage)} :
          \A after \in {DocOf(storage')} :
            /\ \A name \in AllCollections :
                 out'.op \in HandlersOf[name] =>
                   /\ \A other \in AllCollections \ {name} :
                        Get(after, other) = Get(before, other)
                   /\ Get(after, "admin") = Get(before, "admin")
            /\ out'.op = "setupAdmin" =>
                 \A name \in AllCollections : Get(after, name) = Get(before, name)
            /\ out'.op \in {"setupAdmin"} \cup UNION {HandlersOf[name] : name \in AllCollections}
    ]_vars

\* a contact message was saved beside a thought and an admin credential
C20_Witness ==
  /\ out.op = "submit"
  /\ out.kind = "toast"
  /\ \A doc \in {DocOf(storage)} :
       /\ Get(doc, "messages").a # <<>>
       /\ Get(doc, "thoughts").a # <<>> \/ Get(doc, "admin") # JNull

(***************************************************************************)
(* Properties of the contact messages                                      *)
(***************************************************************************)
\* new is old with one message appended that carries the payload
StoresOnce(old, new, payload) ==
  /\ AppendsOne(old, new)
  /\ new[Len(new)] = NewMessage(IdOf(new[Len(new)]), payload)

\* C21: a submission with its required fields is stored in messages exactly
\* when no endpoint is configured or its POST failed: without an endpoint
\* the submit appends it once; with an endpoint the submit stores nothing,
\* a POST answered with an ok response stores nothing, and a POST answered
\* with another response or not at all appends it once; no step of the
\* handler adds more than one message.
C21_StoredIffNotRelayed ==
  [][out'.op = "submit" =>
       \A old \in {Records(storage, "messages")} :
       \A new \in {Records(storage', "messages")} :
         /\ \A f \in ContactForms :
              (/\ ~MissingContactField(Trim(f.name), Trim(f.email), Trim(f.message))
               /\ submitContact(f)) =>
                IF Trim(f.endpoint) = <<>>
                  THEN StoresOnce(old, new,
                                  Payload(Trim(f.name), Trim(f.email), Trim(f.subject),
                                          Trim(f.message), clock))
                  ELSE new = old
         /\ \A k \in pending \ pending' :
              /\ fetchOk(k) => new = old
              /\ (fetchNotOk(k) \/ fetchFailed(k)) => StoresOnce(old, new, k.payload)
         /\ new = old \/ AppendsOne(old, new)
    ]_vars

(***************************************************************************)
(* Properties of the stored images                                         *)
(***************************************************************************)
\* C22: a save that edits a record without a chosen file leaves the image
\* the record had, and one with a chosen file stores the encoding of that
\* file in its place; a save that creates a record without a chosen file
\* stores null as its image, and one with a chosen file the encoding of it.
C22_ImageKeptOrReplaced ==
  [][\A name \in CrudCollections :
       (out'.op = SaveOps[name] /\ storage' # storage) =>
         \A old \in {Records(storage, name)} :
         \A new \in {Records(storage', name)} :
           /\ IsEditStep(name) =>
                /\ Len(new) = Len(old)
                /\ \A i \in {FindIndex(JArr(old), EditingId(name))} :
                     /\ i # 0
                     /\ IF pending' = pending
                          THEN Get(new[i], "image") = Get(old[i], "image")
                          ELSE \E k \in pending \ pending' :
                                 Get(new[i], "image") = DataURL(k.file)
           /\ out'.msg \in CreatedToasts[name] =>
                /\ Len(new) = Len(old) + 1
                /\ IF pending' = pending
                     THEN Get(new[Len(new)], "image") = JNull
                     ELSE \E k \in pending \ pending' :
                            Get(new[Len(new)], "image") = DataURL(k.file)
           /\ IsEditStep(name) \/ out'.msg \in CreatedToasts[name]
    ]_vars

\* the project saved with image o was edited without a chosen file and
\* still holds that image, beside its new updated time
C22_Witness ==
  /\ out.op = "saveProject"
  /\ out.msg = "Project updated"
  /\ pending = {}
  /\ \A recs \in {Records(storage, "projects")} :
       /\ Len(recs) = 1
       /\ Get(recs[1], "image") = DataURL(File(<<"o">>))
       /\ Get(recs[1], "updated") = nowISO(clock - 1)

=============================================================================
